---------------------------- MODULE Spec2Model ----------------------------
(***************************************************************************)
(* Model of the screenshot API: the URL / viewport validator, the RapidAPI *)
(* middleware, the HTTP handlers and the per-request browser lifecycle of  *)
(* captureScreenshot.                                                      *)
(*                                                                         *)
(* Text that the code inspects character by character (hostnames, raw      *)
(* query values, failure messages) is a sequence of one-character strings. *)
(***************************************************************************)
EXTENDS Integers, Sequences, FiniteSets, TLC

VARIABLES
    config,   \* process environment read at import time, and the middleware revision in use
    req,      \* req[r]: the inbound request of slot r (NoReq before it arrives)
    pc,       \* pc[r]: where the handler of request r stands
    loc,      \* loc[r]: the locals of the handler / of captureScreenshot
    res,      \* res[r]: the response sent
    open,     \* the browser sessions currently open
    nextId,   \* the id the next chromium.launch hands out
    call,     \* (pure-function specifications) the arguments of the call
    ret       \* (pure-function specifications) its return value

vars == <<config, req, pc, loc, res, open, nextId, call, ret>>

(***************************************************************************)
(* Bounds                                                                  *)
(***************************************************************************)
\* number of request slots that may be in flight together (Spec)
MaxReq == 2
\* a failure message is made of at most this many fragments
MaxFrags == 2

\* sessions launched before the server stops taking further requests
MaxSessions == 2

(***************************************************************************)
(* Characters, numbers and text                                            *)
(***************************************************************************)
HexDigits == <<"0","1","2","3","4","5","6","7","8","9","a","b","c","d","e","f">>

UpperCase == <<"A","B","C","D","E","F","G","H","I","J","K","L","M",
               "N","O","P","Q","R","S","T","U","V","W","X","Y","Z">>

LowerCase == <<"a","b","c","d","e","f","g","h","i","j","k","l","m",
               "n","o","p","q","r","s","t","u","v","w","x","y","z">>

\* \d of a JavaScript regular expression
IsDigit(c) == \E d \in 1..10 : HexDigits[d] = c

DigitVal(c) == (CHOOSE d \in 1..10 : HexDigits[d] = c) - 1

\* decimal text of a natural number (the IPv4 serializer, Number#toString)
RECURSIVE NatToChars(_)
NatToChars(n) ==
    IF n < 10 THEN <<HexDigits[n + 1]>>
    ELSE Append(NatToChars(n \div 10), HexDigits[(n % 10) + 1])

\* decimal text of an integer, as a client writes it in a query string
IntToChars(n) == IF n < 0 THEN <<"-">> \o NatToChars(0 - n) ELSE NatToChars(n)

\* lower-case hexadecimal text without leading zeros (the IPv6 serializer)
RECURSIVE HexToChars(_)
HexToChars(n) ==
    IF n < 16 THEN <<HexDigits[n + 1]>>
    ELSE Append(HexToChars(n \div 16), HexDigits[(n % 16) + 1])

ToLowerChar(c) ==
    IF \E i \in 1..26 : UpperCase[i] = c
    THEN LowerCase[CHOOSE i \in 1..26 : UpperCase[i] = c]
    ELSE c

\* String.prototype.toLowerCase
toLowerCase(s) == [i \in 1..Len(s) |-> ToLowerChar(s[i])]

\* String.prototype.startsWith
startsWith(s, p) == Len(p) <= Len(s) /\ SubSeq(s, 1, Len(p)) = p

\* String.prototype.endsWith
endsWith(s, p) == Len(p) <= Len(s) /\ SubSeq(s, Len(s) - Len(p) + 1, Len(s)) = p

\* String.prototype.includes
includes(s, p) ==
    \E i \in 1..(Len(s) + 1) :
        i + Len(p) - 1 <= Len(s) /\ SubSeq(s, i, i + Len(p) - 1) = p

\* the pieces of s between dots
RECURSIVE SplitDots(_)
SplitDots(s) ==
    IF \A i \in 1..Len(s) : s[i] # "."
    THEN <<s>>
    ELSE LET k == CHOOSE i \in 1..Len(s) : s[i] = "." /\ \A j \in 1..(i - 1) : s[j] # "."
         IN  <<SubSeq(s, 1, k - 1)>> \o SplitDots(SubSeq(s, k + 1, Len(s)))

RECURSIVE Concat(_)
Concat(ss) == IF ss = <<>> THEN <<>> ELSE Head(ss) \o Concat(Tail(ss))

(***************************************************************************)
(* new URL(url): the WHATWG parser, on inputs given by what they denote.   *)
(* A raw url is undefined, "", a non-string, or text.  Text has a scheme   *)
(* as written (<<>> when it has none, as in "not a url") and a host: a     *)
(* name as written, an IPv4 address (its four numbers, however written),   *)
(* an IPv6 address in brackets (its eight groups), or no host.             *)
(***************************************************************************)
NoHost == [t |-> "none", name |-> <<>>, parts |-> <<>>, groups |-> <<>>]

HostName(n) == [t |-> "name", name |-> n, parts |-> <<>>, groups |-> <<>>]

HostV4(a, b, c, d) == [t |-> "ipv4", name |-> <<>>, parts |-> <<a, b, c, d>>, groups |-> <<>>]

HostV6(g) == [t |-> "ipv6", name |-> <<>>, parts |-> <<>>, groups |-> g]

UrlUndefined == [kind |-> "undefined", scheme |-> <<>>, host |-> NoHost]

UrlEmpty == [kind |-> "empty", scheme |-> <<>>, host |-> NoHost]

UrlArray == [kind |-> "array", scheme |-> <<>>, host |-> NoHost]

UrlText(scheme, host) == [kind |-> "text", scheme |-> scheme, host |-> host]

\* the IPv4 serializer: four decimal numbers joined by dots
SerializeIPv4(p) ==
    NatToChars(p[1]) \o <<".">> \o NatToChars(p[2]) \o <<".">>
        \o NatToChars(p[3]) \o <<".">> \o NatToChars(p[4])

\* length of the run of zero groups that starts at group i
RECURSIVE ZeroRun(_, _)
ZeroRun(g, i) == IF i > Len(g) \/ g[i] # 0 THEN 0 ELSE 1 + ZeroRun(g, i + 1)

\* where the first longest run of two or more zero groups starts (0: nowhere)
CompressAt(g) ==
    LET best == {i \in 1..Len(g) :
                    /\ ZeroRun(g, i) >= 2
                    /\ \A j \in 1..Len(g) : ZeroRun(g, j) <= ZeroRun(g, i)}
    IN  IF best = {} THEN 0 ELSE CHOOSE i \in best : \A j \in best : i <= j

RECURSIVE SerializeFrom(_, _, _)
SerializeFrom(g, i, at) ==
    IF i > Len(g) THEN <<>>
    ELSE IF i = at
         THEN (IF i = 1 THEN <<":", ":">> ELSE <<":">>)
                  \o SerializeFrom(g, i + ZeroRun(g, i), at)
         ELSE HexToChars(g[i]) \o (IF i < Len(g) THEN <<":">> ELSE <<>>)
                  \o SerializeFrom(g, i + 1, at)

\* the IPv6 serializer, with the brackets URL#hostname keeps
SerializeIPv6(g) == <<"[">> \o SerializeFrom(g, 1, CompressAt(g)) \o <<"]">>

SpecialSchemes ==
    { <<"h","t","t","p">>, <<"h","t","t","p","s">>, <<"f","t","p">>,
      <<"f","i","l","e">>, <<"w","s">>, <<"w","s","s">> }

ParseFailure == [ok |-> FALSE, protocol |-> <<>>, hostname |-> <<>>, href |-> <<>>]

\* the host of a parsed URL with a special scheme
ParsedHostname(scheme, host) ==
    IF host.t = "ipv4" THEN SerializeIPv4(host.parts)
    ELSE IF host.t = "ipv6" THEN SerializeIPv6(host.groups)
    ELSE IF scheme = <<"f","i","l","e">> /\ toLowerCase(host.name) = <<"l","o","c","a","l","h","o","s","t">>
         THEN <<>>
    ELSE toLowerCase(host.name)

ParseUrl(raw) ==
    LET scheme == toLowerCase(raw.scheme)
    IN  IF raw.scheme = <<>> THEN ParseFailure
        ELSE IF scheme \in SpecialSchemes /\ raw.host.t = "none"
                /\ scheme # <<"f","i","l","e">>
             THEN ParseFailure
        ELSE LET h == IF scheme \in SpecialSchemes
                      THEN ParsedHostname(scheme, raw.host)
                      ELSE raw.host.name
             IN  [ok |-> TRUE,
                  protocol |-> scheme \o <<":">>,
                  hostname |-> h,
                  href |-> scheme \o <<":", "/", "/">> \o h \o <<"/">>]

(***************************************************************************)
(* validator: PRIVATE_IP_RANGES, BLOCKED_HOSTNAMES, isPrivateIP,           *)
(* validateUrl                                                             *)
(***************************************************************************)
\* \d{1,3}
Digits1to3(s) == Len(s) \in 1..3 /\ \A i \in 1..Len(s) : IsDigit(s[i])

\* /^10\.\d{1,3}\.\d{1,3}\.\d{1,3}$/
Range10(p) ==
    /\ Len(p) = 4
    /\ p[1] = <<"1","0">>
    /\ Digits1to3(p[2]) /\ Digits1to3(p[3]) /\ Digits1to3(p[4])

\* (1[6-9]|2\d) : the alternative 3[0-1] left out
Second172Without30(s) ==
    /\ Len(s) = 2
    /\ \/ s[1] = "1" /\ s[2] \in {"6","7","8","9"}
       \/ s[1] = "2" /\ IsDigit(s[2])

\* (1[6-9]|2\d|3[0-1])
Second172(s) ==
    /\ Len(s) = 2
    /\ \/ s[1] = "1" /\ s[2] \in {"6","7","8","9"}
       \/ s[1] = "2" /\ IsDigit(s[2])
       \/ s[1] = "3" /\ s[2] \in {"0","1"}

\* /^172\.(1[6-9]|2\d|3[0-1])\.\d{1,3}\.\d{1,3}$/
Range172(p) ==
    /\ Len(p) = 4
    /\ p[1] = <<"1","7","2">>
    /\ Second172(p[2]) /\ Digits1to3(p[3]) /\ Digits1to3(p[4])

\* /^192\.168\.\d{1,3}\.\d{1,3}$/
Range192(p) ==
    /\ Len(p) = 4
    /\ p[1] = <<"1","9","2">> /\ p[2] = <<"1","6","8">>
    /\ Digits1to3(p[3]) /\ Digits1to3(p[4])

\* /^169\.254\.\d{1,3}\.\d{1,3}$/
Range169(p) ==
    /\ Len(p) = 4
    /\ p[1] = <<"1","6","9">> /\ p[2] = <<"2","5","4">>
    /\ Digits1to3(p[3]) /\ Digits1to3(p[4])

\* /^127\.\d{1,3}\.\d{1,3}\.\d{1,3}$/
Range127(p) ==
    /\ Len(p) = 4
    /\ p[1] = <<"1","2","7">>
    /\ Digits1to3(p[2]) /\ Digits1to3(p[3]) /\ Digits1to3(p[4])

\* PRIVATE_IP_RANGES without the link-local range
isPrivateIPWithoutLinkLocal(ip) ==
    LET p == SplitDots(ip)
    IN  Range10(p) \/ Range172(p) \/ Range192(p) \/ Range127(p)

\* PRIVATE_IP_RANGES.some((regex) => regex.test(ip))
isPrivateIP(ip) ==
    LET p == SplitDots(ip)
    IN  Range10(p) \/ Range172(p) \/ Range192(p) \/ Range169(p) \/ Range127(p)

BLOCKED_HOSTNAMES ==
    { <<"l","o","c","a","l","h","o","s","t">>,
      <<"1","2","7",".","0",".","0",".","1">>,
      <<":",":","1">>,
      <<"[",":",":","1","]">> }

ErrRequired == "URL parameter is required"

ErrFormat == "Invalid URL format"

ErrProtocol == "Only http and https protocols are allowed"

ErrBlocked == "localhost and loopback addresses are not allowed"

ErrPrivateIP == "Private IP addresses are not allowed"

ErrPrivateIPv6 == "Private IPv6 addresses are not allowed"

Rejected(e) == [valid |-> FALSE, error |-> e, url |-> <<>>]

Accepted(href) == [valid |-> TRUE, error |-> "", url |-> href]

\* the private-IPv4 check made before the blocked-hostname check
HostChecksPrivateFirst(hostname) ==
    IF isPrivateIP(hostname) THEN ErrPrivateIP
    ELSE IF hostname \in BLOCKED_HOSTNAMES THEN ErrBlocked
    ELSE IF startsWith(hostname, <<"[">>) /\ endsWith(hostname, <<"]">>)
         THEN LET ipv6 == SubSeq(hostname, 2, Len(hostname) - 1)
              IN  IF \/ ipv6 = <<":",":","1">>
                     \/ startsWith(ipv6, <<"f","e","8","0",":">>)
                     \/ startsWith(ipv6, <<"f","c">>)
                     \/ startsWith(ipv6, <<"f","d">>)
                  THEN ErrPrivateIPv6
                  ELSE ""
    ELSE ""

\* the hostname checks of validateUrl, in order: "" when all pass
HostChecks(hostname) ==
    IF hostname \in BLOCKED_HOSTNAMES THEN ErrBlocked
    ELSE IF isPrivateIP(hostname) THEN ErrPrivateIP
    ELSE IF startsWith(hostname, <<"[">>) /\ endsWith(hostname, <<"]">>)
         THEN LET ipv6 == SubSeq(hostname, 2, Len(hostname) - 1)
              IN  IF \/ ipv6 = <<":",":","1">>
                     \/ startsWith(ipv6, <<"f","e","8","0",":">>)
                     \/ startsWith(ipv6, <<"f","c">>)
                     \/ startsWith(ipv6, <<"f","d">>)
                  THEN ErrPrivateIPv6
                  ELSE ""
    ELSE ""

validateUrl(url) ==
    IF url.kind # "text" THEN Rejected(ErrRequired)
    ELSE LET parsedUrl == ParseUrl(url)
         IN  IF ~parsedUrl.ok THEN Rejected(ErrFormat)
             ELSE IF parsedUrl.protocol \notin { <<"h","t","t","p",":">>, <<"h","t","t","p","s",":">> }
                  THEN Rejected(ErrProtocol)
             ELSE LET hostname == toLowerCase(parsedUrl.hostname)
                      e == HostChecks(hostname)
                  IN  IF e # "" THEN Rejected(e) ELSE Accepted(parsedUrl.href)

(***************************************************************************)
(* Raw query values: absent (undefined) or text                            *)
(***************************************************************************)
Absent == [present |-> FALSE, text |-> <<>>]

Text(s) == [present |-> TRUE, text |-> s]

\* a JavaScript number or NaN: <<>> is NaN, <<n>> the number n
NaN == <<>>

Num(n) == <<n>>

isNaN(x) == x = NaN

RECURSIVE SkipWhite(_)
SkipWhite(s) == IF s # <<>> /\ Head(s) = " " THEN SkipWhite(Tail(s)) ELSE s

\* the longest prefix of s made of decimal digits
RECURSIVE DigitPrefix(_)
DigitPrefix(s) ==
    IF s # <<>> /\ IsDigit(Head(s)) THEN <<Head(s)>> \o DigitPrefix(Tail(s)) ELSE <<>>

RECURSIVE DigitsValue(_)
DigitsValue(d) ==
    IF d = <<>> THEN 0 ELSE 10 * DigitsValue(SubSeq(d, 1, Len(d) - 1)) + DigitVal(d[Len(d)])

\* parseInt(v, 10): undefined reads as the text "undefined"
parseInt(v) ==
    LET s == SkipWhite(IF v.present THEN v.text ELSE <<"u","n","d","e","f","i","n","e","d">>)
        signed == s # <<>> /\ Head(s) \in {"+", "-"}
        d == DigitPrefix(IF signed THEN Tail(s) ELSE s)
    IN  IF d = <<>> THEN NaN
        ELSE IF signed /\ Head(s) = "-" THEN Num(0 - DigitsValue(d))
        ELSE Num(DigitsValue(d))

Min(a, b) == IF a < b THEN a ELSE b

Max(a, b) == IF a > b THEN a ELSE b

MIN_SIZE == 200

MAX_SIZE == 3000

DEFAULT_WIDTH == 1366

DEFAULT_HEIGHT == 768

\* the clamp without its lower bound
ClampAxisNoMin(x, dflt) ==
    LET v == IF isNaN(x) THEN dflt ELSE x[1]
    IN  Min(MAX_SIZE, v)

\* one axis of validateViewport: default when NaN, then clamp
ClampAxis(x, dflt) ==
    LET v == IF isNaN(x) THEN dflt ELSE x[1]
    IN  Max(MIN_SIZE, Min(MAX_SIZE, v))

validateViewport(width, height) ==
    [width |-> ClampAxis(parseInt(width), DEFAULT_WIDTH),
     height |-> ClampAxis(parseInt(height), DEFAULT_HEIGHT)]

\* isFullPage(value): query values are never booleans
isFullPage(value) ==
    IF ~value.present THEN FALSE
    ELSE value.text = <<"t","r","u","e">> \/ value.text = <<"1">>

(***************************************************************************)
(* middleware/rapidapi: validateRapidAPI (both revisions),                 *)
(* getSubscriptionLimits, addRapidAPIHeaders.  Header values, secrets and  *)
(* tier names are only compared, so they are plain strings; "" is an       *)
(* absent (or empty) value.                                                *)
(***************************************************************************)
TierRow(rpm, w, h) ==
    [defined |-> TRUE, requestsPerMonth |-> rpm, maxViewportWidth |-> w, maxViewportHeight |-> h]

\* a value found on the prototype chain: it has none of the row's properties
InheritedValue ==
    [defined |-> FALSE, requestsPerMonth |-> 0, maxViewportWidth |-> 0, maxViewportHeight |-> 0]

TierNames == {"BASIC", "PRO", "ULTRA", "MEGA"}

limits ==
    [t \in TierNames |->
        CASE t = "BASIC" -> TierRow(100, 1920, 1080)
          [] t = "PRO"   -> TierRow(1000, 2560, 1440)
          [] t = "ULTRA" -> TierRow(10000, 3000, 3000)
          [] t = "MEGA"  -> TierRow(100000, 3000, 3000)]

\* the properties every object literal inherits from Object.prototype
ObjectPrototypeKeys ==
    {"constructor", "toString", "valueOf", "hasOwnProperty", "isPrototypeOf",
     "propertyIsEnumerable", "toLocaleString", "__proto__"}

\* limits[subscription] || limits.BASIC
getSubscriptionLimits(subscription) ==
    IF subscription \in TierNames THEN limits[subscription]
    ELSE IF subscription \in ObjectPrototypeKeys THEN InheritedValue
    ELSE limits["BASIC"]

\* addRapidAPIHeaders: the X-RateLimit-Limit header set, or the TypeError
\* of undefined.toString()
addRapidAPIHeaders(subscription) ==
    LET l == getSubscriptionLimits(subscription)
    IN  IF l.defined THEN [threw |-> FALSE, rateLimit |-> l.requestsPerMonth]
        ELSE [threw |-> TRUE, rateLimit |-> 0]

NoRapidApi == [user |-> "", subscription |-> ""]

MwReject(status, code) ==
    [next |-> FALSE, status |-> status, code |-> code, rapidapi |-> NoRapidApi]

MwNext(user, subscription) ==
    [next |-> TRUE, status |-> 0, code |-> "", rapidapi |-> [user |-> user, subscription |-> subscription]]

\* x || dflt on strings
OrElse(x, dflt) == IF x = "" THEN dflt ELSE x

\* the revision that skips the configuration check when no secret is set
validateRapidAPISecretRequiredNoConfigCheck(cfg, headers) ==
    IF headers.secret # cfg.secret THEN MwReject(403, "FORBIDDEN")
    ELSE MwNext(headers.user, OrElse(headers.subscription, "BASIC"))

\* validateRapidAPI, the revision that requires the proxy secret
validateRapidAPISecretRequired(cfg, headers) ==
    IF cfg.secret = "" THEN MwReject(500, "CONFIG_ERROR")
    ELSE IF headers.secret # cfg.secret THEN MwReject(403, "FORBIDDEN")
    ELSE MwNext(headers.user, OrElse(headers.subscription, "BASIC"))

\* validateRapidAPI, the revision with required key and host headers and an
\* optional proxy secret
validateRapidAPISecretOptional(cfg, headers) ==
    IF headers.key = "" THEN MwReject(401, "UNAUTHORIZED")
    ELSE IF headers.host = "" THEN MwReject(401, "UNAUTHORIZED")
    ELSE IF cfg.host # "" /\ headers.host # cfg.host THEN MwReject(403, "FORBIDDEN")
    ELSE IF cfg.secret # "" /\ headers.secret # cfg.secret THEN MwReject(403, "FORBIDDEN")
    ELSE MwNext(OrElse(headers.user, "unknown"), OrElse(headers.subscription, "BASIC"))

validateRapidAPI(cfg, headers) ==
    IF cfg.mw = "secretRequired" THEN validateRapidAPISecretRequired(cfg, headers)
    ELSE validateRapidAPISecretOptional(cfg, headers)

(***************************************************************************)
(* index: the pieces of the /v1/screenshot handler that are functions of   *)
(* their inputs                                                            *)
(***************************************************************************)
\* parseInt(x, 10) || dflt : NaN and 0 are falsy
ParseOrDefault(x, dflt) ==
    LET v == parseInt(x)
    IN  IF isNaN(v) \/ v[1] = 0 THEN dflt ELSE v[1]

\* the viewport of /v1/screenshot, clamped to the subscription limits
V1Viewport(width, height, l) ==
    [width |-> Max(200, Min(l.maxViewportWidth, ParseOrDefault(width, 1366))),
     height |-> Max(200, Min(l.maxViewportHeight, ParseOrDefault(height, 768)))]

MsgTimeoutUpper == <<"T","i","m","e","o","u","t">>

MsgTimeoutLower == <<"t","i","m","e","o","u","t">>

MsgNameNotResolved ==
    <<"n","e","t",":",":","E","R","R","_","N","A","M","E","_","N","O","T","_",
      "R","E","S","O","L","V","E","D">>

MsgConnectionRefused ==
    <<"n","e","t",":",":","E","R","R","_","C","O","N","N","E","C","T","I","O","N","_",
      "R","E","F","U","S","E","D">>

Outcome(status, code) == [status |-> status, code |-> code]

\* the classification with the name-resolution test made first
ClassifyNameFirst(message) ==
    IF includes(message, MsgNameNotResolved) THEN Outcome(400, "DOMAIN_NOT_FOUND")
    ELSE IF includes(message, MsgTimeoutLower) \/ includes(message, MsgTimeoutUpper)
         THEN Outcome(504, "TIMEOUT")
    ELSE IF includes(message, MsgConnectionRefused) THEN Outcome(400, "CONNECTION_REFUSED")
    ELSE Outcome(500, "CAPTURE_FAILED")

\* the catch block of /v1/screenshot
Classify(message) ==
    IF includes(message, MsgTimeoutLower) \/ includes(message, MsgTimeoutUpper)
    THEN Outcome(504, "TIMEOUT")
    ELSE IF includes(message, MsgNameNotResolved) THEN Outcome(400, "DOMAIN_NOT_FOUND")
    ELSE IF includes(message, MsgConnectionRefused) THEN Outcome(400, "CONNECTION_REFUSED")
    ELSE Outcome(500, "CAPTURE_FAILED")

\* what the catch block of a route answers to a failed capture
CaptureFailureResponse(route, message) ==
    IF route = "/v1/screenshot" THEN Classify(message)
    ELSE Outcome(500, "")

(***************************************************************************)
(* State of the server: request slots, handler locals, responses           *)
(***************************************************************************)
Reqs == 1..MaxReq

NoHeaders == [key |-> "", host |-> "", secret |-> "", user |-> "", subscription |-> ""]

NoReq ==
    [route |-> "", url |-> UrlUndefined, width |-> Absent, height |-> Absent,
     fullPage |-> Absent, format |-> Absent, headers |-> NoHeaders]

NoLoc ==
    [rapidapi |-> NoRapidApi, validated |-> FALSE, urlValidation |-> Rejected(""),
     width |-> 0, height |-> 0, fullPage |-> FALSE,
     browser |-> 0, failed |-> FALSE, error |-> <<>>, launches |-> 0, closes |-> 0]

NoRes == [status |-> 0, code |-> "", rateLimit |-> 0, width |-> 0, height |-> 0]

NoCall == [fn |-> ""]

NoRet == [done |-> FALSE]

Returned(v) == [done |-> TRUE, value |-> v]

DefaultConfig == [mw |-> "secretOptional", secret |-> "", host |-> ""]

\* the server before any request, with the environment cfg
ServerIdle(cfg) ==
    /\ config = cfg
    /\ req = [r \in Reqs |-> NoReq]
    /\ pc = [r \in Reqs |-> "idle"]
    /\ loc = [r \in Reqs |-> NoLoc]
    /\ res = [r \in Reqs |-> NoRes]
    /\ open = {}
    /\ nextId = 1

serverVars == <<config, req, pc, loc, res, open, nextId>>

(***************************************************************************)
(* SpecUrl: validateUrl applied to one raw url                             *)
(***************************************************************************)
Localhost == <<"l","o","c","a","l","h","o","s","t">>

ExampleCom == <<"e","x","a","m","p","l","e",".","c","o","m">>

HostNames ==
    { Localhost,
      <<"L","O","C","A","L","H","O","S","T">>,
      <<"L","o","c","a","l","H","o","s","t">>,
      Localhost \o <<".">>,
      ExampleCom,
      <<"1","0",".","0",".","0",".","1",".","n","i","p",".","i","o">>,
      <<"f","d","r","o","i","d",".","o","r","g">> }

Http == <<"h","t","t","p">>

Https == <<"h","t","t","p","s">>

Ftp == <<"f","t","p">>

Schemes ==
    { Http, Https, <<"H","T","T","P">>, <<"H","t","t","p","s">>, Ftp,
      <<"f","i","l","e">>, <<"w","s">> }

FirstOctets == {1, 9, 10, 11, 126, 127, 128, 168, 169, 170, 171, 172, 173, 191, 192, 193}

SecondOctets == {0, 1, 15, 16, 17, 20, 29, 30, 31, 32, 167, 168, 169, 253, 254, 255}

ThirdOctets == {0, 255}

FourthOctets == {0, 1, 255}

V4Hosts ==
    { HostV4(a, b, c, d) : a \in FirstOctets, b \in SecondOctets,
                           c \in ThirdOctets, d \in FourthOctets }

\* 0, 1, fc, fd, fc0, 2001, fbff, fc00, fcab, fd00, fdff, fe00, fe7f, fe80,
\* fe81, febf, fec0, ff02
FirstGroups ==
    {0, 1, 252, 253, 4032, 8193, 64511, 64512, 64683, 64768, 65023, 65024,
     65151, 65152, 65153, 65215, 65216, 65282}

\* groups 6, 7, 8 range over {0, ffff}, {0, 7f00}, {0, 1}
V6Hosts ==
    { HostV6(<<g1, 0, 0, 0, 0, g6, g7, g8>>) :
        g1 \in FirstGroups, g6 \in {0, 65535}, g7 \in {0, 32512}, g8 \in {0, 1} }

Hosts == {HostName(n) : n \in HostNames} \cup V4Hosts \cup V6Hosts

RawUrls ==
    {UrlUndefined, UrlEmpty, UrlArray}
        \cup {UrlText(<<>>, NoHost)}
        \cup {UrlText(<<"j","a","v","a","s","c","r","i","p","t">>, NoHost)}
        \cup {UrlText(sc, NoHost) : sc \in Schemes}
        \cup {UrlText(sc, h) : sc \in Schemes, h \in Hosts}

InitUrl ==
    /\ ServerIdle(DefaultConfig)
    /\ call \in {[fn |-> "validateUrl", url |-> u] : u \in RawUrls}
    /\ ret = NoRet

CallValidateUrl ==
    /\ call.fn = "validateUrl"
    /\ ret = NoRet
    /\ ret' = Returned(validateUrl(call.url))
    /\ UNCHANGED <<serverVars, call>>

NextUrl == CallValidateUrl

SpecUrl == InitUrl /\ [][NextUrl]_vars

\* the url is text that parses, with the scheme http or https (in any case)
IsHttpUrl(u) ==
    /\ u.kind = "text"
    /\ toLowerCase(u.scheme) \in {Http, Https}
    /\ u.host.t # "none"

\* a.b.c.d lies in 10/8, 172.16/12, 192.168/16, 169.254/16 or 127/8
InPrivateV4(p) ==
    \/ p[1] = 10
    \/ p[1] = 172 /\ p[2] >= 16 /\ p[2] <= 31
    \/ p[1] = 192 /\ p[2] = 168
    \/ p[1] = 169 /\ p[2] = 254
    \/ p[1] = 127

\* the text of the first group begins with fc or fd
FirstGroupFcFd(g1) ==
    \/ g1 \in {252, 253}
    \/ (g1 \div 16) \in {252, 253}
    \/ (g1 \div 256) \in {252, 253}

\* C3 as stated: every http/https URL whose host is an IPv4 address in
\* 10/8, 172.16/12, 192.168/16, 169.254/16 or 127/8, 127.0.0.1 included, is
\* rejected with 'Private IP addresses are not allowed'.
C3_AllPrivateV4GivePrivateAddress ==
    (ret.done /\ IsHttpUrl(call.url) /\ call.url.host.t = "ipv4"
        /\ InPrivateV4(call.url.host.parts))
    => (~ret.value.valid /\ ret.value.error = ErrPrivateIP)

\* C3 amended: such a URL is always rejected; the error is 'Private IP
\* addresses are not allowed' except for 127.0.0.1 itself, which the
\* blocked-hostname check rejects first with 'localhost and loopback
\* addresses are not allowed'.
C3_PrivateV4Rejected ==
    (ret.done /\ IsHttpUrl(call.url) /\ call.url.host.t = "ipv4"
        /\ InPrivateV4(call.url.host.parts))
    => /\ ~ret.value.valid
       /\ ret.value.error =
            (IF call.url.host.parts = <<127, 0, 0, 1>> THEN ErrBlocked ELSE ErrPrivateIP)

C3_Witness ==
    /\ ret.done
    /\ call.url = UrlText(Http, HostV4(172, 31, 255, 255))
    /\ ret.value.error = ErrPrivateIP

\* C4: every accepted url has scheme http or https, a hostname that is none
\* of localhost, 127.0.0.1, ::1, [::1], no IPv4 address in the private,
\* link-local or loopback ranges, and no bracketed IPv6 literal that is the
\* loopback address or begins with fe80:, fc or fd.
C4_AcceptedUrlIsSafe ==
    (ret.done /\ ret.value.valid)
    => LET u == call.url
           hostname == toLowerCase(ParseUrl(u).hostname)
       IN  /\ u.kind = "text"
           /\ toLowerCase(u.scheme) \in {Http, Https}
           /\ (startsWith(ret.value.url, Http \o <<":">>)
                 \/ startsWith(ret.value.url, Https \o <<":">>))
           /\ hostname \notin {Localhost, <<"1","2","7",".","0",".","0",".","1">>,
                               <<":",":","1">>, <<"[",":",":","1","]">>}
           /\ u.host.t = "ipv4" => ~InPrivateV4(u.host.parts)
           /\ u.host.t = "ipv6" =>
                /\ u.host.groups # <<0, 0, 0, 0, 0, 0, 0, 1>>
                /\ u.host.groups[1] # 65152
                /\ ~FirstGroupFcFd(u.host.groups[1])
                /\ ~startsWith(hostname, <<"[","f","e","8","0",":">>)
                /\ ~startsWith(hostname, <<"[","f","c">>)
                /\ ~startsWith(hostname, <<"[","f","d">>)

C4_Witness ==
    /\ ret.done
    /\ ret.value.valid
    /\ call.url = UrlText(Https, HostV4(172, 32, 0, 1))

\* the error of the first check that fails, the checks taken in the order
\* missing input, malformed url, scheme, blocked hostname, private IPv4,
\* private IPv6 ("" when none fails)
FirstFailingCheck(u) ==
    IF u.kind # "text" THEN ErrRequired
    ELSE IF u.scheme = <<>> \/ (u.host.t = "none" /\ toLowerCase(u.scheme) \in {Http, Https, Ftp, <<"w","s">>})
         THEN ErrFormat
    ELSE IF toLowerCase(u.scheme) \notin {Http, Https} THEN ErrProtocol
    ELSE IF \/ u.host.t = "name" /\ toLowerCase(u.host.name) = Localhost
            \/ u.host.t = "ipv4" /\ u.host.parts = <<127, 0, 0, 1>>
            \/ u.host.t = "ipv6" /\ u.host.groups = <<0, 0, 0, 0, 0, 0, 0, 1>>
         THEN ErrBlocked
    ELSE IF u.host.t = "ipv4" /\ InPrivateV4(u.host.parts) THEN ErrPrivateIP
    ELSE IF u.host.t = "ipv6" /\ (u.host.groups[1] = 65152 \/ FirstGroupFcFd(u.host.groups[1]))
         THEN ErrPrivateIPv6
    ELSE ""

\* C5: validateUrl reports the error of the first failing check in the order
\* missing, malformed, scheme, blocked hostname, private IPv4, private IPv6;
\* a parsable url whose scheme is not http or https gets the scheme error
\* whatever its hostname.
C5_FirstFailingCheckReported ==
    ret.done =>
        /\ ret.value.error = FirstFailingCheck(call.url)
        /\ ret.value.valid <=> FirstFailingCheck(call.url) = ""
        /\ (call.url.kind = "text" /\ call.url.host.t # "none"
              /\ toLowerCase(call.url.scheme) \notin {Http, Https})
           => ret.value.error = ErrProtocol

C5_Witness ==
    /\ ret.done
    /\ call.url = UrlText(Ftp, HostV4(10, 0, 0, 1))
    /\ ret.value.error = ErrProtocol

(***************************************************************************)
(* SpecViewport: validateViewport applied to one pair of raw values        *)
(***************************************************************************)
DimValues == {-5, -1, 0, 1, 50, 199, 200, 201, 768, 1366, 1920, 1921, 2999, 3000, 3001, 5000}

\* values parseInt cannot read
UnparsableDims ==
    {Absent, Text(<<>>), Text(<<"a","b","c">>), Text(<<"-">>), Text(<<"p","x","1","2">>)}

\* values parseInt reads in part: "12px", " 42", "3.7", "+300"
LooseDims ==
    {Text(<<"1","2","p","x">>), Text(<<" ","4","2">>), Text(<<"3",".","7">>),
     Text(<<"+","3","0","0">>)}

RawDims == UnparsableDims \cup LooseDims \cup {Text(IntToChars(n)) : n \in DimValues}

InitViewport ==
    /\ ServerIdle(DefaultConfig)
    /\ call \in {[fn |-> "validateViewport", width |-> w, height |-> h] :
                    w \in RawDims, h \in RawDims}
    /\ ret = NoRet

CallValidateViewport ==
    /\ call.fn = "validateViewport"
    /\ ret = NoRet
    /\ ret' = Returned(validateViewport(call.width, call.height))
    /\ UNCHANGED <<serverVars, call>>

NextViewport == CallValidateViewport

SpecViewport == InitViewport /\ [][NextViewport]_vars

\* n clamped to [lo, hi]
Clamped(n, lo, hi) == IF n < lo THEN lo ELSE IF n > hi THEN hi ELSE n

\* what an axis must become: the default when the raw value is absent or
\* unparsable, the clamped integer when it is the text of an integer
AxisAsClaimed(raw, out, dflt, lo, hi) ==
    /\ out >= lo /\ out <= hi
    /\ raw \in UnparsableDims => out = Clamped(dflt, lo, hi)
    /\ \A n \in DimValues : raw = Text(IntToChars(n)) => out = Clamped(n, lo, hi)

\* C6: validateViewport always returns 200 <= width, height <= 3000, each
\* axis on its own: the default (1366 / 768) for an absent or unparsable
\* value, the integer clamped to [200, 3000] otherwise.
C6_ViewportClamped ==
    ret.done =>
        /\ AxisAsClaimed(call.width, ret.value.width, 1366, 200, 3000)
        /\ AxisAsClaimed(call.height, ret.value.height, 768, 200, 3000)

C6_Witness ==
    /\ ret.done
    /\ call.width = Text(<<"5","0">>)
    /\ call.height = Absent
    /\ ret.value = [width |-> 200, height |-> 768]

(***************************************************************************)
(* SpecTier: the tier-dependent part of the /v1/screenshot handler applied *)
(* to one subscription header and one pair of raw sizes                    *)
(***************************************************************************)
SubscriptionHeaders ==
    {"", "BASIC", "PRO", "ULTRA", "MEGA", "basic", "Pro", "GOLD",
     "constructor", "__proto__", "toString"}

TierDims == UnparsableDims \cup {Text(IntToChars(n)) : n \in DimValues}

InitTier ==
    /\ ServerIdle(DefaultConfig)
    /\ call \in {[fn |-> "tier", subscription |-> sh, width |-> w, height |-> h] :
                    sh \in SubscriptionHeaders, w \in TierDims,
                    h \in {Absent, Text(<<"0">>), Text(<<"5","0","0","0">>)}}
    /\ ret = NoRet

\* req.rapidapi.subscription, addRapidAPIHeaders, getSubscriptionLimits and
\* the viewport clamp; the clamp is not reached when addRapidAPIHeaders threw
CallTier ==
    /\ call.fn = "tier"
    /\ ret = NoRet
    /\ LET subscription == OrElse(call.subscription, "BASIC")
           hdr == addRapidAPIHeaders(subscription)
           l == getSubscriptionLimits(subscription)
       IN  ret' = Returned([subscription |-> subscription,
                            threw |-> hdr.threw,
                            rateLimit |-> hdr.rateLimit,
                            limits |-> l,
                            viewport |-> IF hdr.threw THEN [width |-> 0, height |-> 0]
                                         ELSE V1Viewport(call.width, call.height, l)])
    /\ UNCHANGED <<serverVars, call>>

NextTier == CallTier

SpecTier == InitTier /\ [][NextTier]_vars

\* C7 as stated: on /v1/screenshot each axis is the default only for an
\* absent or unparsable value, and every integer, 0 and negatives included,
\* is clamped to [200, min(3000, tier maximum)]; "0" gives 200.
C7_TierViewportClamped ==
    (ret.done /\ ~ret.value.threw) =>
        /\ AxisAsClaimed(call.width, ret.value.viewport.width, 1366, 200,
                         Min(3000, ret.value.limits.maxViewportWidth))
        /\ AxisAsClaimed(call.height, ret.value.viewport.height, 768, 200,
                         Min(3000, ret.value.limits.maxViewportHeight))

\* C8 as stated: getSubscriptionLimits returns the BASIC row for every name
\* that is not exactly BASIC, PRO, ULTRA or MEGA and the named row otherwise,
\* so the rate-limit header and the viewport bounds are those of a table row.
C8_LimitsAreATableRow ==
    ret.done =>
        LET row == IF ret.value.subscription = "PRO" THEN TierRow(1000, 2560, 1440)
                   ELSE IF ret.value.subscription = "ULTRA" THEN TierRow(10000, 3000, 3000)
                   ELSE IF ret.value.subscription = "MEGA" THEN TierRow(100000, 3000, 3000)
                   ELSE TierRow(100, 1920, 1080)
        IN  /\ ret.value.limits = row
            /\ ~ret.value.threw
            /\ ret.value.rateLimit = row.requestsPerMonth

(***************************************************************************)
(* Failures of the rendering engine.  An error is the sequence of the      *)
(* fragments its text is made of; error.message is their concatenation.    *)
(***************************************************************************)
Fragments == {"Timeout", "timeout", "NAME_NOT_RESOLVED", "CONNECTION_REFUSED", "TIMED_OUT"}

FragmentText(f) ==
    CASE f = "Timeout" -> MsgTimeoutUpper \o <<" ","3","0","0","0","0","m","s"," ">>
      [] f = "timeout" -> <<" ">> \o MsgTimeoutLower \o <<" ">>
      [] f = "NAME_NOT_RESOLVED" -> MsgNameNotResolved \o <<" ">>
      [] f = "CONNECTION_REFUSED" -> MsgConnectionRefused \o <<" ">>
      [] f = "TIMED_OUT" ->
            <<"n","e","t",":",":","E","R","R","_","C","O","N","N","E","C","T","I","O","N","_",
              "T","I","M","E","D","_","O","U","T"," ">>

\* error.message
MessageOf(error) == Concat([i \in 1..Len(error) |-> FragmentText(error[i])])

Errors == UNION {[1..n -> Fragments] : n \in 0..MaxFrags}

(***************************************************************************)
(* The HTTP layer: route dispatch, middleware, handlers                    *)
(***************************************************************************)
AuthenticatedRoutes == {"/v1/screenshot", "/v1/info"}

\* a request arrives; Express runs validateRapidAPI first on the /v1 routes
Receive(r, q) ==
    /\ pc[r] = "idle"
    /\ req' = [req EXCEPT ![r] = q]
    /\ pc' = [pc EXCEPT ![r] = IF q.route \in AuthenticatedRoutes THEN "middleware" ELSE "handler"]
    /\ UNCHANGED <<config, loc, res, open, nextId, call, ret>>

\* validateRapidAPI: a response, or req.rapidapi set and next()
Middleware(r) ==
    /\ pc[r] = "middleware"
    /\ LET m == validateRapidAPI(config, req[r].headers)
       IN  IF m.next
           THEN /\ loc' = [loc EXCEPT ![r].rapidapi = m.rapidapi]
                /\ pc' = [pc EXCEPT ![r] = "handler"]
                /\ res' = res
           ELSE /\ res' = [res EXCEPT ![r].status = m.status, ![r].code = m.code]
                /\ pc' = [pc EXCEPT ![r] = "done"]
                /\ loc' = loc
    /\ UNCHANGED <<config, req, open, nextId, call, ret>>

\* GET /v1/info
Info(r) ==
    /\ pc[r] = "handler"
    /\ req[r].route = "/v1/info"
    /\ LET l == getSubscriptionLimits(loc[r].rapidapi.subscription)
       IN  res' = [res EXCEPT ![r] = [status |-> 200, code |-> "info",
                                      rateLimit |-> l.requestsPerMonth,
                                      width |-> l.maxViewportWidth,
                                      height |-> l.maxViewportHeight]]
    /\ pc' = [pc EXCEPT ![r] = "done"]
    /\ UNCHANGED <<config, req, loc, open, nextId, call, ret>>

\* the early return that is never taken
UrlRejectedNever(urlValidation) == FALSE

\* if (!urlValidation.valid) return res.status(400)
UrlRejected(urlValidation) == ~urlValidation.valid

\* the call of captureScreenshot up to its first await: browser = null and
\* chromium.launch invoked
CallCapture(l, width, height, fullPage) ==
    [l EXCEPT !.width = width, !.height = height, !.fullPage = fullPage,
              !.browser = 0, !.launches = @ + 1]

\* GET /screenshot up to the await of captureScreenshot
Screenshot(r) ==
    /\ pc[r] = "handler"
    /\ req[r].route = "/screenshot"
    /\ LET urlValidation == validateUrl(req[r].url)
           viewport == validateViewport(req[r].width, req[r].height)
           captureFullPage == isFullPage(req[r].fullPage)
           l == [loc[r] EXCEPT !.validated = TRUE, !.urlValidation = urlValidation]
       IN  IF UrlRejected(urlValidation)
           THEN /\ res' = [res EXCEPT ![r].status = 400, ![r].code = urlValidation.error]
                /\ loc' = [loc EXCEPT ![r] = l]
                /\ pc' = [pc EXCEPT ![r] = "done"]
           ELSE /\ loc' = [loc EXCEPT ![r] = CallCapture(l, viewport.width, viewport.height,
                                                         captureFullPage)]
                /\ pc' = [pc EXCEPT ![r] = "launch"]
                /\ res' = res
    /\ UNCHANGED <<config, req, open, nextId, call, ret>>

\* GET /v1/screenshot up to the await of captureScreenshot.  When
\* addRapidAPIHeaders throws, the async handler rejects: Express 4 sends
\* nothing (status 0), Express 5 answers 500 through its error handler.
V1Screenshot(r) ==
    /\ pc[r] = "handler"
    /\ req[r].route = "/v1/screenshot"
    /\ LET subscription == loc[r].rapidapi.subscription
           hdr == addRapidAPIHeaders(subscription)
           urlValidation == validateUrl(req[r].url)
           l == [loc[r] EXCEPT !.validated = TRUE, !.urlValidation = urlValidation]
           lim == getSubscriptionLimits(subscription)
           viewport == V1Viewport(req[r].width, req[r].height, lim)
           captureFullPage == req[r].fullPage.present
                                /\ req[r].fullPage.text \in {<<"t","r","u","e">>, <<"1">>}
       IN  IF hdr.threw
           THEN /\ \E status \in {0, 500} :
                     res' = [res EXCEPT ![r].status = status, ![r].code = "UNHANDLED"]
                /\ pc' = [pc EXCEPT ![r] = "done"]
                /\ loc' = loc
           ELSE IF UrlRejected(urlValidation)
           THEN /\ res' = [res EXCEPT ![r].status = 400, ![r].code = "INVALID_URL",
                                      ![r].rateLimit = hdr.rateLimit]
                /\ loc' = [loc EXCEPT ![r] = l]
                /\ pc' = [pc EXCEPT ![r] = "done"]
           ELSE IF req[r].format.present /\ req[r].format.text # <<>>
                      /\ req[r].format.text # <<"p","n","g">>
           THEN /\ res' = [res EXCEPT ![r].status = 400, ![r].code = "INVALID_FORMAT",
                                      ![r].rateLimit = hdr.rateLimit]
                /\ loc' = [loc EXCEPT ![r] = l]
                /\ pc' = [pc EXCEPT ![r] = "done"]
           ELSE /\ loc' = [loc EXCEPT ![r] = CallCapture(l, viewport.width, viewport.height,
                                                         captureFullPage)]
                /\ res' = [res EXCEPT ![r].rateLimit = hdr.rateLimit]
                /\ pc' = [pc EXCEPT ![r] = "launch"]
    /\ UNCHANGED <<config, req, open, nextId, call, ret>>

(***************************************************************************)
(* screenshot: captureScreenshot, one action per await                     *)
(***************************************************************************)
\* a finally block that closes the browser only when the try block succeeded
FinallyOnSuccessOnly(l) ==
    IF l.browser # 0 /\ ~l.failed
    THEN [loc |-> [l EXCEPT !.closes = @ + 1], pc |-> "closing"]
    ELSE [loc |-> l, pc |-> "returned"]

\* finally { if (browser) await browser.close() }: close is invoked and
\* awaited, or the function is left at once
Finally(l) ==
    IF l.browser # 0
    THEN [loc |-> [l EXCEPT !.closes = @ + 1], pc |-> "closing"]
    ELSE [loc |-> l, pc |-> "returned"]

\* the awaited call of the try block rejects with error e
Rejects(r, at, e) ==
    /\ pc[r] = at
    /\ LET f == Finally([loc[r] EXCEPT !.failed = TRUE, !.error = e])
       IN  /\ loc' = [loc EXCEPT ![r] = f.loc]
           /\ pc' = [pc EXCEPT ![r] = f.pc]
    /\ UNCHANGED <<config, req, res, open, nextId, call, ret>>

\* the awaited call of the try block resolves
Resolves(r, at, then) ==
    /\ pc[r] = at
    /\ pc' = [pc EXCEPT ![r] = then]
    /\ UNCHANGED <<config, req, loc, res, open, nextId, call, ret>>

\* a launch that hands every request the one session of a pool
LaunchResolvesPooled(r) ==
    /\ pc[r] = "launch"
    /\ loc' = [loc EXCEPT ![r].browser = 1]
    /\ open' = open \cup {1}
    /\ nextId' = nextId + 1
    /\ pc' = [pc EXCEPT ![r] = "newContext"]
    /\ UNCHANGED <<config, req, res, call, ret>>

\* browser = await chromium.launch(...)
LaunchResolves(r) ==
    /\ pc[r] = "launch"
    /\ loc' = [loc EXCEPT ![r].browser = nextId]
    /\ open' = open \cup {nextId}
    /\ nextId' = nextId + 1
    /\ pc' = [pc EXCEPT ![r] = "newContext"]
    /\ UNCHANGED <<config, req, res, call, ret>>

LaunchRejects(r, e) == Rejects(r, "launch", e)

\* await browser.newContext({ viewport })
NewContextResolves(r) == Resolves(r, "newContext", "newPage")

NewContextRejects(r, e) == Rejects(r, "newContext", e)

\* await context.newPage(), then the two timeouts are set
NewPageResolves(r) == Resolves(r, "newPage", "goto")

NewPageRejects(r, e) == Rejects(r, "newPage", e)

\* await page.goto(url, { waitUntil: 'networkidle', timeout })
GotoResolves(r) == Resolves(r, "goto", "screenshot")

GotoRejects(r, e) == Rejects(r, "goto", e)

\* await page.screenshot(...); return screenshot runs the finally block
ScreenshotResolves(r) ==
    /\ pc[r] = "screenshot"
    /\ LET f == Finally(loc[r])
       IN  /\ loc' = [loc EXCEPT ![r] = f.loc]
           /\ pc' = [pc EXCEPT ![r] = f.pc]
    /\ UNCHANGED <<config, req, res, open, nextId, call, ret>>

ScreenshotRejects(r, e) == Rejects(r, "screenshot", e)

\* await browser.close() resolves (it is taken not to reject): the session
\* is gone and captureScreenshot returns or throws
CloseResolves(r) ==
    /\ pc[r] = "closing"
    /\ open' = open \ {loc[r].browser}
    /\ pc' = [pc EXCEPT ![r] = "returned"]
    /\ UNCHANGED <<config, req, loc, res, nextId, call, ret>>

\* the handler after the await: res.send(screenshot)
SendImage(r) ==
    /\ pc[r] = "returned"
    /\ ~loc[r].failed
    /\ res' = [res EXCEPT ![r].status = 200, ![r].code = "image/png",
                          ![r].width = IF req[r].route = "/v1/screenshot" THEN loc[r].width ELSE 0,
                          ![r].height = IF req[r].route = "/v1/screenshot" THEN loc[r].height ELSE 0]
    /\ pc' = [pc EXCEPT ![r] = "done"]
    /\ UNCHANGED <<config, req, loc, open, nextId, call, ret>>

\* the handler after the await: the catch block
Catch(r) ==
    /\ pc[r] = "returned"
    /\ loc[r].failed
    /\ LET o == CaptureFailureResponse(req[r].route, MessageOf(loc[r].error))
       IN  res' = [res EXCEPT ![r].status = o.status, ![r].code = o.code]
    /\ pc' = [pc EXCEPT ![r] = "done"]
    /\ UNCHANGED <<config, req, loc, open, nextId, call, ret>>

\* the steps of request r, its input drawn from Q and its failures from E
Step(r, Q, E) ==
    \/ \E q \in Q : Receive(r, q)
    \/ Middleware(r)
    \/ Info(r)
    \/ Screenshot(r)
    \/ V1Screenshot(r)
    \/ LaunchResolves(r)
    \/ \E e \in E : LaunchRejects(r, e)
    \/ NewContextResolves(r)
    \/ \E e \in E : NewContextRejects(r, e)
    \/ NewPageResolves(r)
    \/ \E e \in E : NewPageRejects(r, e)
    \/ GotoResolves(r)
    \/ \E e \in E : GotoRejects(r, e)
    \/ ScreenshotResolves(r)
    \/ \E e \in E : ScreenshotRejects(r, e)
    \/ CloseResolves(r)
    \/ SendImage(r)
    \/ Catch(r)

(***************************************************************************)
(* Spec: MaxReq requests in flight together, each step of one interleaved  *)
(* with the steps of the others                                            *)
(***************************************************************************)
Request(route, url, width, fullPage, format, headers) ==
    [route |-> route, url |-> url, width |-> width, height |-> Absent,
     fullPage |-> fullPage, format |-> format, headers |-> headers]

Headers(key, host, secret, subscription) ==
    [key |-> key, host |-> host, secret |-> secret, user |-> "", subscription |-> subscription]

PublicUrl == UrlText(Https, HostName(ExampleCom))

BlockedUrl == UrlText(Http, HostV4(192, 168, 1, 1))

ConcRequests ==
    { Request("/screenshot", PublicUrl, Absent, Absent, Absent, NoHeaders),
      Request("/screenshot", BlockedUrl, Absent, Absent, Absent, NoHeaders),
      Request("/v1/screenshot", PublicUrl, Absent, Absent, Absent, Headers("k", "h1", "", "PRO")),
      Request("/v1/info", UrlUndefined, Absent, Absent, Absent, Headers("k", "h1", "", "")) }

ConcErrors == {<<"Timeout">>}

Init ==
    /\ ServerIdle(DefaultConfig)
    /\ call = NoCall
    /\ ret = NoRet

Next == \E r \in Reqs : Step(r, ConcRequests, ConcErrors)

Spec == Init /\ [][Next]_vars

\* C1: in every call of captureScreenshot whose launch succeeded, whatever
\* fails or succeeds afterwards, browser.close is invoked exactly once, and
\* it has been invoked and awaited when the call returns or throws; it is
\* never invoked more than once, and never without a browser.
C1_CloseOnceBeforeReturn ==
    \A r \in Reqs :
        /\ loc[r].closes <= 1
        /\ loc[r].browser = 0 => loc[r].closes = 0
        /\ (pc[r] \in {"returned", "done"} /\ loc[r].browser # 0)
           => (loc[r].closes = 1 /\ loc[r].browser \notin open)

C1_Witness ==
    \E r \in Reqs :
        /\ pc[r] = "returned"
        /\ loc[r].failed
        /\ loc[r].browser # 0
        /\ loc[r].closes = 1

(***************************************************************************)
(* SpecSessions: requests in flight together and one after another: a      *)
(* connection whose request has been answered carries the next request     *)
(***************************************************************************)
\* Express invokes the handler anew for the next request: its locals and
\* its response are fresh, the sessions of the process are what they were
ReceiveNext(r, q) ==
    /\ pc[r] = "done"
    /\ nextId <= MaxSessions
    /\ req' = [req EXCEPT ![r] = q]
    /\ loc' = [loc EXCEPT ![r] = NoLoc]
    /\ res' = [res EXCEPT ![r] = NoRes]
    /\ pc' = [pc EXCEPT ![r] = IF q.route \in AuthenticatedRoutes THEN "middleware" ELSE "handler"]
    /\ UNCHANGED <<config, open, nextId, call, ret>>

NextSessions ==
    \E r \in Reqs :
        \/ Step(r, ConcRequests, ConcErrors)
        \/ \E q \in ConcRequests : ReceiveNext(r, q)

SpecSessions == Init /\ [][NextSessions]_vars

\* the request is inside captureScreenshot, or the handler is about to answer
InCapture(r) ==
    pc[r] \in {"launch", "newContext", "newPage", "goto", "screenshot", "closing", "returned"}

\* the session of the request is in use: launched and not yet torn down
UsesSession(r) ==
    pc[r] \in {"newContext", "newPage", "goto", "screenshot", "closing"}

\* the handler found nothing to refuse and called captureScreenshot
AcceptedRequest(r) ==
    /\ req[r].route \in {"/screenshot", "/v1/screenshot"}
    /\ loc[r].validated
    /\ loc[r].urlValidation.valid
    /\ req[r].route = "/v1/screenshot"
         => ~(req[r].format.present /\ req[r].format.text \notin {<<>>, <<"p","n","g">>})

SessionsIsolated ==
    /\ \A r \in Reqs :
          /\ loc[r].launches <= 1
          /\ InCapture(r) => loc[r].launches = 1
          /\ (pc[r] = "done" /\ AcceptedRequest(r)) => loc[r].launches = 1
          /\ (pc[r] = "done" /\ ~AcceptedRequest(r)) => loc[r].launches = 0
    /\ \A r1, r2 \in Reqs :
          (r1 # r2 /\ loc[r1].browser # 0) => loc[r1].browser # loc[r2].browser
    /\ \A b \in open : \E r \in Reqs : UsesSession(r) /\ loc[r].browser = b
    /\ (\A r \in Reqs : pc[r] \in {"idle", "done"}) => open = {}

SessionStep ==
    /\ \A r \in Reqs :
          (loc'[r].browser # loc[r].browser /\ loc'[r].browser # 0)
             => /\ loc[r].browser = 0
                /\ pc[r] = "launch"
                /\ loc'[r].browser >= nextId
                /\ loc'[r].browser \notin open
                /\ open' = open \cup {loc'[r].browser}
    /\ \A b \in open \ open' :
          \E r \in Reqs : /\ pc[r] = "closing"
                          /\ pc'[r] = "returned"
                          /\ loc[r].browser = b
                          /\ open' = open \ {b}
    /\ \A r \in Reqs : loc'[r].launches > loc[r].launches => loc[r].launches = 0

HttpConfigs ==
    {[mw |-> "secretRequired", secret |-> s, host |-> ""] : s \in {"", "s1"}}
        \cup {[mw |-> "secretOptional", secret |-> s, host |-> h] :
                 s \in {"", "s1"}, h \in {"", "h1"}}

HttpHeaders ==
    { Headers(a[1], a[2], a[3], sub) :
        a \in { <<"", "", "">>, <<"", "", "s1">>, <<"k", "", "">>, <<"k", "h2", "">>,
                <<"k", "h1", "">>, <<"k", "h1", "s1">>, <<"k", "h1", "s2">> },
        sub \in {"", "PRO", "constructor"} }

HttpUrls == {UrlUndefined, BlockedUrl, PublicUrl}

HttpRequests ==
    { Request("/screenshot", u, w, fp, Absent, NoHeaders) :
        u \in HttpUrls, w \in {Absent, Text(<<"5","0","0","0">>)},
        fp \in {Absent, Text(<<"t","r","u","e">>)} }
    \cup
    { Request("/v1/screenshot", u, w, Absent, f, h) :
        u \in HttpUrls, w \in {Absent, Text(<<"5","0","0","0">>)},
        f \in {Absent, Text(<<"p","n","g">>), Text(<<"j","p","e","g">>)},
        h \in HttpHeaders }
    \cup
    { Request("/v1/info", UrlUndefined, Absent, Absent, Absent, h) : h \in HttpHeaders }

InitHttp ==
    /\ \E cfg \in HttpConfigs : ServerIdle(cfg)
    /\ call = NoCall
    /\ ret = NoRet

NextHttp == Step(1, HttpRequests, Errors)

SpecHttp == InitHttp /\ [][NextHttp]_vars

ScreenshotRoutes == {"/screenshot", "/v1/screenshot"}

\* C2: when validateUrl rejects the url of a request to /screenshot or
\* /v1/screenshot, the handler answers 400 at once; and a request whose url
\* validateUrl rejects never launches the rendering engine, at any point.
C2_RejectedUrlNeverLaunches ==
    \A r \in Reqs :
        req[r].route \in ScreenshotRoutes =>
            /\ (loc[r].validated /\ ~loc[r].urlValidation.valid)
               => (pc[r] = "done" /\ res[r].status = 400)
            /\ ~validateUrl(req[r].url).valid
               => (loc[r].launches = 0 /\ loc[r].browser = 0
                     /\ pc[r] \in {"idle", "middleware", "handler", "done"})

C2_Witness ==
    \E r \in Reqs :
        /\ req[r].route = "/v1/screenshot"
        /\ req[r].url = BlockedUrl
        /\ pc[r] = "done"
        /\ res[r].status = 400
        /\ res[r].code = "INVALID_URL"
        /\ loc[r].launches = 0

\* the first match, in the order timeout, name resolution, connection
\* refused, of the fragments an error is made of
FirstMatch(error) ==
    IF \E i \in 1..Len(error) : error[i] \in {"Timeout", "timeout"}
    THEN Outcome(504, "TIMEOUT")
    ELSE IF \E i \in 1..Len(error) : error[i] = "NAME_NOT_RESOLVED"
    THEN Outcome(400, "DOMAIN_NOT_FOUND")
    ELSE IF \E i \in 1..Len(error) : error[i] = "CONNECTION_REFUSED"
    THEN Outcome(400, "CONNECTION_REFUSED")
    ELSE Outcome(500, "CAPTURE_FAILED")

\* C9 as stated: whenever captureScreenshot fails during a request, on
\* either route, the response carries the status of the first matching
\* pattern (504, 400, 400, else 500).
C9_EveryFailureClassified ==
    \A r \in Reqs :
        (pc[r] = "done" /\ loc[r].failed)
        => res[r].status = FirstMatch(loc[r].error).status

\* C9 amended: whenever captureScreenshot fails during a /v1/screenshot
\* request, the response carries the status and code of the first matching
\* pattern (a timeout indication being the text timeout or Timeout); when
\* it fails during a /screenshot request the answer is 500 whatever the text.
C9_FailureClassifiedOnV1 ==
    \A r \in Reqs :
        (pc[r] = "done" /\ loc[r].failed)
        => /\ req[r].route = "/v1/screenshot"
              => Outcome(res[r].status, res[r].code) = FirstMatch(loc[r].error)
           /\ req[r].route = "/screenshot" => res[r].status = 500
           /\ res[r].status \in {504, 400, 500}

C9_Witness ==
    \E r \in Reqs :
        /\ pc[r] = "done"
        /\ req[r].route = "/v1/screenshot"
        /\ loc[r].error = <<"NAME_NOT_RESOLVED", "timeout">>
        /\ res[r].status = 504
        /\ res[r].code = "TIMEOUT"

\* request r is on an authenticated route and the middleware has run
PastMiddleware(r) ==
    /\ req[r].route \in AuthenticatedRoutes
    /\ pc[r] \notin {"idle", "middleware"}

ConfigErrorAnswered(r) ==
    /\ pc[r] = "done"
    /\ res[r].status = 500
    /\ res[r].code = "CONFIG_ERROR"
    /\ ~loc[r].validated
    /\ loc[r].launches = 0

=============================================================================
